---- MODULE Spec2Model ----
(***************************************************************************)
(* Model of homeinfogmbh/backlight: the brightness device abstraction      *)
(* (Linux sysfs, I2C/SMBus with a PercentageMap, xrandr), the schedule     *)
(* functions parse_config / get_latest, and the schedule-following daemon. *)
(*                                                                         *)
(* The repository holds two generations of the daemon:                     *)
(*   "monolith"  src/backlight.py          (schedule keyed by datetime.time)*)
(*   "package"   src/backlight/daemon.py   (parse_config re-formats the key *)
(*                                          with strftime, so keys are str) *)
(* Both are modelled; the variable impl says which one is running.         *)
(*                                                                         *)
(* Times of day are minutes 0..DayLen-1 of a scaled-down day; the wall     *)
(* clock, truncated to the minute by stripped_datetime, is the integer     *)
(* day*DayLen + minute, so comparing clocks compares date and time.        *)
(***************************************************************************)
EXTENDS Integers, Sequences, FiniteSets, TLC

\* ---------------------------------------------------------------- bounds
DayLen     == 4   \* minutes in the scaled day
MaxDay     == 2   \* days the wall clock runs through
MaxTicks   == 2   \* loop iterations that may fall into one clock minute
MaxEntries == 2   \* entries of the JSON configuration object
MaxRawMax  == 7   \* largest max_brightness of a sysfs device
LargeRawMax == 255 \* max_brightness of a sysfs device with fine steps
MaxCards   == 2   \* device directories in /sys/class/backlight
MaxDisplay == 2   \* largest X display number of an Xrandr device
MaxCalls   == 3   \* invocations of the display tool in one run
MaxValues  == 5   \* raw values of a PercentageMap other than the chip's

\* ------------------------------------------------------ program constants
FallbackPercent == 100   \* Daemon._startup: "Falling back to 100%."
None            == -1    \* Python's None for Daemon._last

VARIABLES
    impl,      \* "monolith" | "package": which daemon generation runs
    config,    \* Daemon.config / the schedule handed to get_latest
    clock,     \* stripped_datetime(): day * DayLen + minute of day
    latest,    \* what the last call of get_latest returned or raised
    pc,        \* position of the program
    dev,       \* the backlight device
    reset,     \* Daemon.reset
    initial,   \* Daemon._initial_brightness
    last,      \* Daemon._last
    ticks,     \* loop iterations begun in the current clock minute
    lastApp,   \* the last use of the Daemon.brightness setter
    minuteApps,\* brightness changes the device took in the current clock minute
    loopApps,  \* uses of the setter by the loop of Daemon.spawn in that minute
    started,   \* clock value at which _startup ran (None before)
    rejected,  \* a use of the setter inside the loop has been rejected
    call,      \* the last call made on the device API
    json,      \* the JSON object load_config returned, in file order
    parsed,    \* the items parse_config yielded for it
    sysfs,     \* /sys/class/backlight: its device directories, as enumerated
    smbus,     \* what looking the syshash up and opening the I2C bus gives
    loaded,    \* what the last call of a device locator returned or raised
    environ,   \* os.environ['DISPLAY'] and the Display context manager in use
    pmap,      \* a PercentageMap and the arguments it was built from
    cli        \* the command line of the CLI and how it ended

\* The host as the locators and the parser see it, and what they made of it.
hostVars == <<json, parsed, sysfs, smbus, loaded>>

vars == <<impl, config, clock, latest, pc, dev, reset, initial, last, ticks,
          lastApp, minuteApps, loopApps, started, rejected, call, json,
          parsed, sysfs, smbus, loaded, environ, pmap, cli>>

\* What the tools around the daemon work on.
toolVars == <<environ, pmap, cli>>

TimesOfDay == 0 .. (DayLen - 1)
MaxClock   == MaxDay * DayLen - 1
TimeOf(c)  == c % DayLen          \* datetime.time() of a stripped datetime

\* ------------------------------------------------------------- schedule
\* The keys of a JSON configuration object: a string strptime('%H:%M')
\* parses (zero-padded or not), or one it rejects.
RawKeys ==
    [kind : {"hhmm"}, min : TimesOfDay, padded : BOOLEAN]
        \cup {[kind |-> "bad", min |-> 0, padded |-> FALSE]}

\* The values: something int() accepts, or something it rejects.
RawValues ==
    [kind : {"int"}, v : {-1, 30, 80, 150}] \cup {[kind |-> "bad", v |-> 0]}

RawEntries == RawKeys \X RawValues

RECURSIVE SeqsUpTo(_, _)
SeqsUpTo(S, n) ==
    IF n = 0 THEN {<< >>}
    ELSE LET shorter == SeqsUpTo(S, n - 1)
         IN shorter \cup
            {Append(s, e) : s \in {t \in shorter : Len(t) = n - 1}, e \in S}

\* A JSON object has pairwise distinct keys; items() keeps the file order.
RawConfigs ==
    {rc \in SeqsUpTo(RawEntries, MaxEntries) :
        \A i, j \in 1 .. Len(rc) : i # j => rc[i][1] # rc[j][1]}

EmptyTab == [t \in {} |-> 0]

Put(tab, k, v) == [t \in (DOMAIN tab) \cup {k} |-> IF t = k THEN v ELSE tab[t]]

\* Further values a JSON object can hold: a float, given in halves (201 is
\* 100.5), and a string holding an integer literal.
JsonValues ==
    RawValues \cup [kind : {"float"}, v : {-1, 201}]
              \cup [kind : {"str"}, v : {80}]

\* The JSON objects of up to n entries.
JsonConfigs(n) ==
    {rc \in SeqsUpTo(RawKeys \X JsonValues, n) :
        \A i, j \in 1 .. Len(rc) : i # j => rc[i][1] # rc[j][1]}

\* int(brightness): an int is itself, a float is truncated towards zero, a
\* string is read as a literal; TypeError or ValueError otherwise.
int(brightness) ==
    CASE brightness.kind = "int"   -> [err |-> "", v |-> brightness.v]
      [] brightness.kind = "str"   -> [err |-> "", v |-> brightness.v]
      [] brightness.kind = "float" ->
            [err |-> "",
             v   |-> IF brightness.v >= 0 THEN brightness.v \div 2
                     ELSE 0 - ((0 - brightness.v) \div 2)]
      [] brightness.kind = "bad"   -> [err |-> "ValueError", v |-> None]

\* The items the generator parse_config yields, in input order.
RECURSIVE Yielded(_)
Yielded(rc) ==
    IF rc = << >> THEN << >>
    ELSE LET timestamp  == rc[1][1]
             brightness == int(rc[1][2])
             rest       == Yielded(Tail(rc))
         IN IF timestamp.kind = "bad" THEN rest
            ELSE IF brightness.err # "" THEN rest
            ELSE IF 0 <= brightness.v /\ brightness.v <= 100
                 THEN <<<<timestamp.min, brightness.v>>>> \o rest
                 ELSE rest

\* dict() of the yielded items: later items win.
RECURSIVE Dict(_, _)
Dict(items, tab) ==
    IF items = << >> THEN tab
    ELSE Dict(Tail(items), Put(tab, items[1][1], items[1][2]))

\* parse_config followed by dict(): entries in input order, later wins.
ParseItems(rc, tab) == Dict(Yielded(rc), tab)

\* keys: the Python type of the keys parse_config yields.
parse_config(im, rc) ==
    [keys |-> IF im = "monolith" THEN "time" ELSE "str",
     tab  |-> ParseItems(rc, EmptyTab)]

ParsedConfigs(im) == {parse_config(im, rc) : rc \in RawConfigs}

Entry(ts, br) == [err |-> "", timestamp |-> ts, brightness |-> br]
Raise(e)      == [err |-> e, timestamp |-> None, brightness |-> None]
NoValue       == Raise("None")

RECURSIVE SortedSeq(_)
SortedSeq(S) ==
    IF S = {} THEN << >>
    ELSE LET m == CHOOSE x \in S : \A y \in S : x <= y
         IN <<m>> \o SortedSeq(S \ {m})

\* sorted(config.items())
sorted_values(cfg) ==
    LET ks == SortedSeq(DOMAIN cfg.tab)
    IN [i \in 1 .. Len(ks) |-> <<ks[i], cfg.tab[ks[i]]>>]

\* The for loop of get_latest, from item i on, with the latest so far.
\* A str key compared with a datetime.time raises TypeError.
RECURSIVE ScanLatest_strict(_, _, _, _, _)
ScanLatest_strict(keys, sv, now, i, lt) ==
    IF i > Len(sv) THEN lt
    ELSE IF keys = "str" THEN Raise("TypeError")
    ELSE IF sv[i][1] < now
         THEN ScanLatest_strict(keys, sv, now, i + 1, Entry(sv[i][1], sv[i][2]))
         ELSE lt

RECURSIVE ScanLatest(_, _, _, _, _)
ScanLatest(keys, sv, now, i, lt) ==
    IF i > Len(sv) THEN lt
    ELSE IF keys = "str" THEN Raise("TypeError")
    ELSE IF sv[i][1] <= now
         THEN ScanLatest(keys, sv, now, i + 1, Entry(sv[i][1], sv[i][2]))
         ELSE lt

\* What get_latest does once the loop is over.
FallBack_first(sv, lt) ==
    IF lt = NoValue
    THEN IF Len(sv) = 0 THEN Raise("NoLatestEntry")
         ELSE Entry(sv[1][1], sv[1][2])
    ELSE lt

FallBack_unguarded(sv, lt) ==
    IF lt = NoValue
    THEN IF Len(sv) = 0 THEN Raise("IndexError")
         ELSE Entry(sv[Len(sv)][1], sv[Len(sv)][2])
    ELSE lt

FallBack(sv, lt) ==
    IF lt = NoValue
    THEN IF Len(sv) = 0 THEN Raise("NoLatestEntry")
         ELSE Entry(sv[Len(sv)][1], sv[Len(sv)][2])
    ELSE lt

get_latest(cfg, now) ==
    LET sv == sorted_values(cfg)
    IN FallBack(sv, ScanLatest(cfg.keys, sv, now, 1, NoValue))

\* --------------------------------------------------------------- devices
\* One record shape for the three variants.
\*   linux : raw is the content of brightness / actual_brightness
\*   i2c   : raw is the byte of the brightness register; ver names the
\*           PercentageMap generation ("api": api/i2c.py and types.py,
\*           "old": i2c.py)
\*   xrandr: raw is the brightness multiplier in hundredths (1.0 = 100)
Device(k, ver, m, r) == [kind |-> k, ver |-> ver, max |-> m, raw |-> r]

Result(d, e) == [dev |-> d, err |-> e]

\* round(): round half to even, for the non-negative rational n / d.
Round(n, d) ==
    LET q == n \div d
        r == n % d
    IN IF 2 * r < d THEN q
       ELSE IF 2 * r > d THEN q + 1
       ELSE IF q % 2 = 0 THEN q ELSE q + 1

\* PercentageMap.__init__ of api/i2c.py and types.py, for the raw values
\* first..lastv and the percentages pmin..pmax: raw value v gets
\* range(round(percentage), round(percentage + step)), the percentage
\* advancing by the unrounded step. <<lo, hi>> stands for range(lo, hi).
PercentageMap(first, lastv, pmin, pmax) ==
    LET raw_span     == lastv - first
        percent_span == pmax - pmin
    IN [v \in first .. lastv |->
          <<Round(pmin * raw_span + (v - first) * percent_span, raw_span),
            Round(pmin * raw_span + (v - first + 1) * percent_span, raw_span)>>]

\* PercentageMap.__init__ of i2c.py: the percentage advances by the
\* rounded step.
RECURSIVE OldBounds(_, _, _, _)
OldBounds(bs, n, raw_span, percent_span) ==
    IF Len(bs) > n THEN bs
    ELSE OldBounds(Append(bs, Round(bs[Len(bs)] * raw_span + percent_span,
                                    raw_span)),
                   n, raw_span, percent_span)

PercentageMapOld(first, lastv, pmin, pmax) ==
    LET bs == OldBounds(<<pmin>>, lastv - first + 1, lastv - first, pmax - pmin)
    IN [v \in first .. lastv |-> <<bs[v - first + 1], bs[v - first + 2]>>]

\* ChrontelCH7511B.VALUES
ChrontelValues(ver) ==
    IF ver = "api" THEN PercentageMap(1, 17, 30, 100)
    ELSE PercentageMapOld(1, 17, 30, 99)

\* PercentageMap.from_percent: the first raw value, in raw order, whose
\* range holds the percentage; ValueError (api) or KeyError (old) if none.
from_percent(ver, values, percentage) ==
    LET hits == {v \in DOMAIN values :
                    values[v][1] <= percentage /\ percentage < values[v][2]}
    IN IF hits = {}
       THEN [err |-> IF ver = "api" THEN "ValueError" ELSE "KeyError", raw |-> None]
       ELSE [err |-> "", raw |-> CHOOSE v \in hits : \A w \in hits : v <= w]

\* LinuxBacklight.raw setter: open(brightness, 'w') and write.
LinuxSetRaw(d, brightness, writable) ==
    IF writable THEN Result([d EXCEPT !.raw = brightness], "")
    ELSE Result(d, "PermissionError")

\* LinuxBacklight.percent getter
LinuxPercent(d) == (d.raw * 100) \div d.max

\* LinuxBacklight.percent setter
LinuxSetPercent_ceil(d, percent, writable) ==
    IF 0 <= percent /\ percent <= 100
    THEN LinuxSetRaw(d, (d.max * percent + 99) \div 100, writable)
    ELSE Result(d, "ValueError")

LinuxSetPercent(d, percent, writable) ==
    IF 0 <= percent /\ percent <= 100
    THEN LinuxSetRaw(d, (d.max * percent) \div 100, writable)
    ELSE Result(d, "ValueError")

\* I2CBacklight.raw setter
I2CSetRaw_unchecked(d, value) == Result([d EXCEPT !.raw = value], "")

I2CSetRaw(d, value) ==
    IF value \in DOMAIN ChrontelValues(d.ver)
    THEN Result([d EXCEPT !.raw = value], "")
    ELSE Result(d, "ValueError")

\* I2CBacklight.percent setter
I2CSetPercent(d, percent) ==
    IF 0 <= percent /\ percent <= 100
    THEN LET r == from_percent(d.ver, ChrontelValues(d.ver), percent)
         IN IF r.err # "" THEN Result(d, r.err) ELSE I2CSetRaw(d, r.raw)
    ELSE Result(d, "ValueError")

\* Xrandr.raw setter: xrandr --output <connected> --brightness <value>
XrandrSetRaw(d, hundredths) == Result([d EXCEPT !.raw = hundredths], "")

\* Xrandr.percent setter: self.raw = percent / 100
XrandrSetPercent(d, percent) == XrandrSetRaw(d, percent)

\* backlight.percent = percent, on whichever variant was loaded
SetPercent(d, percent, writable) ==
    CASE d.kind = "linux"  -> LinuxSetPercent(d, percent, writable)
      [] d.kind = "i2c"    -> I2CSetPercent(d, percent)
      [] d.kind = "xrandr" -> XrandrSetPercent(d, percent)

\* backlight.percent, on the variants that report an integer
Percent(d) == IF d.kind = "linux" THEN LinuxPercent(d) ELSE d.raw

\* backlight.raw = value, on whichever variant was loaded
SetRaw(d, value, writable) ==
    CASE d.kind = "linux"  -> LinuxSetRaw(d, value, writable)
      [] d.kind = "i2c"    -> I2CSetRaw(d, value)
      [] d.kind = "xrandr" -> XrandrSetRaw(d, value)

\* A Python number as the fraction num / den, den > 0.
Number(n, d) == [num |-> n, den |-> d]

\* I2CBacklight.percent getter: sum(range_) / len(range_)
I2CPercent(d) ==
    LET range_ == ChrontelValues(d.ver)[d.raw]
        lo     == range_[1]
        hi     == range_[2]
    IN Number(((lo + hi - 1) * (hi - lo)) \div 2, hi - lo)

\* backlight.percent, on whichever variant was loaded
GetPercent(d) ==
    CASE d.kind = "linux"  -> Number(LinuxPercent(d), 1)
      [] d.kind = "i2c"    -> I2CPercent(d)
      [] d.kind = "xrandr" -> Number(d.raw, 1)

\* PercentageMap.from_percent for a number that need not be whole:
\* "percentage in percent" compares it with the integers of the range, so
\* a number with a fractional part is in no range.
from_percent_number(ver, values, q) ==
    IF q.num % q.den = 0
    THEN from_percent(ver, values, q.num \div q.den)
    ELSE [err |-> IF ver = "api" THEN "ValueError" ELSE "KeyError",
          raw |-> None]

\* I2CBacklight.percent setter, handed a number
I2CSetPercentNumber(d, q) ==
    IF 0 <= q.num /\ q.num <= 100 * q.den
    THEN LET r == from_percent_number(d.ver, ChrontelValues(d.ver), q)
         IN IF r.err # "" THEN Result(d, r.err) ELSE I2CSetRaw(d, r.raw)
    ELSE Result(d, "ValueError")

\* backlight.percent = backlight.percent
Reapply(d, writable) ==
    CASE d.kind = "linux"  -> LinuxSetPercent(d, LinuxPercent(d), writable)
      [] d.kind = "i2c"    -> I2CSetPercentNumber(d, I2CPercent(d))
      [] d.kind = "xrandr" -> XrandrSetPercent(d, d.raw)

\* ---------------------------------------------------------------- daemon
NoApp  == [phase |-> "none", percent |-> None, err |-> ""]
NoDevice == [kind |-> "none", ver |-> "", max |-> 0, raw |-> 0]
NoCall == [op |-> "none", arg |-> None, err |-> "", ret |-> None]
NoEnviron == [env |-> [n \in {"PATH"} |-> <<"/usr/bin">>], previous |-> << >>,
              display |-> None, before |-> [n \in {"PATH"} |-> <<"/usr/bin">>],
              failed |-> FALSE, calls |-> 0]
NoMap == [ver |-> "", first |-> 0, lastv |-> 0, pmin |-> 0, pmax |-> 0,
          values |-> << >>]
NoCli == [card |-> "", value |-> [sign |-> "", mag |-> None], raw |-> FALSE,
          io |-> "", before |-> NoDevice, set |-> None, err |-> "",
          exit |-> None]

\* ------------------------------------------------------- device discovery
\* Names a directory of /sys/class/backlight can have.
Cards == {"acpi_video0", "intel_backlight", "radeon_bl0"}

\* LinuxBacklight._files
Files == {"max_brightness", "brightness", "actual_brightness"}

\* The files the constructor requires under omit_actual.
FilesOmitActual == {"max_brightness", "brightness"}

\* The regular files a device directory may hold.
Contents == {{}, {"brightness"}, FilesOmitActual, Files}

\* BASEDIR.iterdir(): the device directories, in the order the system
\* yields them.
Listings ==
    {l \in SeqsUpTo([name : Cards, files : Contents], MaxCards) :
        \A i, j \in 1 .. Len(l) : i # j => l[i].name # l[j].name}

Found(kind, name, probes) ==
    [err |-> "", kind |-> kind, name |-> name, probes |-> probes]

Failed(err, probes) ==
    [err |-> err, kind |-> "", name |-> "", probes |-> probes]

\* LinuxBacklight.__init__: the exception it raises, "" if none.
LinuxBacklight(fs, graphics_card, omit_actual) ==
    LET at == {i \in 1 .. Len(fs) : fs[i].name = graphics_card}
    IN IF at = {} THEN "DoesNotExist"
       ELSE LET files == fs[CHOOSE i \in at : TRUE].files
                needed == IF omit_actual THEN FilesOmitActual ELSE Files
            IN IF needed \subseteq files THEN "" ELSE "DoesNotSupportAPI"

\* The for loop of Backlight.load and LinuxBacklight.any from candidate i
\* on; probes lists what has been tried so far.
RECURSIVE First_nosuppress(_, _, _, _, _)
First_nosuppress(fs, graphics_cards, omit_actual, i, probes) ==
    IF i > Len(graphics_cards) THEN Failed("NoSupportedGraphicsCards", probes)
    ELSE LET e == LinuxBacklight(fs, graphics_cards[i], omit_actual)
             tried == Append(probes, graphics_cards[i])
         IN IF e = "" THEN Found("linux", graphics_cards[i], tried)
            ELSE IF e = "DoesNotSupportAPI" THEN Failed(e, tried)
            ELSE First_nosuppress(fs, graphics_cards, omit_actual, i + 1, tried)

RECURSIVE First(_, _, _, _, _)
First(fs, graphics_cards, omit_actual, i, probes) ==
    IF i > Len(graphics_cards) THEN Failed("NoSupportedGraphicsCards", probes)
    ELSE LET e == LinuxBacklight(fs, graphics_cards[i], omit_actual)
             tried == Append(probes, graphics_cards[i])
         IN IF e = "" THEN Found("linux", graphics_cards[i], tried)
            ELSE First(fs, graphics_cards, omit_actual, i + 1, tried)

Names(fs) == [i \in 1 .. Len(fs) |-> fs[i].name]

\* LinuxBacklight.any
LinuxAny(fs, omit_actual, probes) ==
    First(fs, Names(fs), omit_actual, 1, probes)

\* Backlight.load
BacklightLoad(fs, graphics_cards) ==
    First(fs, IF graphics_cards = << >> THEN Names(fs) ELSE graphics_cards,
          FALSE, 1, << >>)

\* autoload; bus is what I2C_CARDS[syshash()]() gives: "KeyError",
\* "DoesNotExist" or "ok".
autoload_i2c_first(fs, bus, search, omit_actual) ==
    IF bus = "ok" THEN Found("i2c", "ChrontelCH7511B", <<"i2c">>)
    ELSE IF LinuxBacklight(fs, "acpi_video0", omit_actual) = ""
    THEN Found("linux", "acpi_video0", <<"i2c", "acpi_video0">>)
    ELSE IF search THEN LinuxAny(fs, omit_actual, <<"i2c", "acpi_video0">>)
    ELSE Found("xrandr", "", <<"i2c", "acpi_video0">>)

autoload(fs, bus, search, omit_actual) ==
    IF LinuxBacklight(fs, "acpi_video0", omit_actual) = ""
    THEN Found("linux", "acpi_video0", <<"acpi_video0">>)
    ELSE IF bus = "ok"
    THEN Found("i2c", "ChrontelCH7511B", <<"acpi_video0", "i2c">>)
    ELSE IF search THEN LinuxAny(fs, omit_actual, <<"acpi_video0", "i2c">>)
    ELSE Found("xrandr", "", <<"acpi_video0", "i2c">>)

NoLoad ==
    [op |-> "none", search |-> FALSE, omit_actual |-> FALSE, cards |-> << >>,
     result |-> Failed("", << >>)]

\* Daemon.brightness setter: ValueError and PermissionError are logged,
\* anything else leaves the setter as an exception.
Brightness_nocatch(d, percent, writable) ==
    LET r == SetPercent(d, percent, writable)
    IN [dev |-> r.dev, err |-> r.err, raised |-> r.err]

Brightness(d, percent, writable) ==
    LET r == SetPercent(d, percent, writable)
    IN [dev    |-> r.dev,
        err    |-> r.err,
        raised |-> IF r.err \in {"ValueError", "PermissionError"}
                   THEN "" ELSE r.err]

\* self.config[now.time()]: KeyError unless a key equals the datetime.time.
Lookup_latest(cfg, t) ==
    LET lt == get_latest(cfg, t)
    IN IF lt.err = "" THEN [err |-> "", brightness |-> lt.brightness]
       ELSE [err |-> "KeyError", brightness |-> None]

Lookup(cfg, t) ==
    IF cfg.keys = "time" /\ t \in DOMAIN cfg.tab
    THEN [err |-> "", brightness |-> cfg.tab[t]]
    ELSE [err |-> "KeyError", brightness |-> None]

\* The guard of the loop of Daemon.spawn.
Consult(l, now) == l = None \/ now > l

\* What Daemon._shutdown hands to the setter.
ResetValue_fallback(init) == FallbackPercent

ResetValue(init) == init

\* One use of the setter by the daemon, in the given phase.
Apply(percent, writable, phase) ==
    LET r == Brightness(dev, percent, writable)
    IN /\ dev' = r.dev
       /\ lastApp' = [phase |-> phase, percent |-> percent, err |-> r.err]
       /\ minuteApps' = IF r.err = "" THEN minuteApps + 1 ELSE minuteApps
       /\ pc' = IF r.raised # "" THEN "CRASHED"
                ELSE CASE phase = "startup"  -> "RUNNING"
                       [] phase = "loop"     -> "SLEEP"
                       [] phase = "shutdown" -> "STOPPED"

DaemonDevices ==
    {Device("linux", "", MaxRawMax, r) : r \in {0, MaxRawMax \div 2, MaxRawMax}}

\* The state after Daemon.__init__.
Init ==
    /\ impl \in {"monolith", "package"}
    /\ config \in ParsedConfigs(impl)
    /\ clock \in 0 .. (DayLen - 1)
    /\ dev \in DaemonDevices
    /\ reset \in BOOLEAN
    /\ initial = Percent(dev)
    /\ last = None
    /\ pc = "STARTING"
    /\ latest = NoValue
    /\ ticks = 0
    /\ lastApp = NoApp
    /\ minuteApps = 0
    /\ loopApps = 0
    /\ started = None
    /\ rejected = FALSE
    /\ call = NoCall
    /\ json = << >>
    /\ parsed = << >>
    /\ sysfs = << >>
    /\ smbus = "KeyError"
    /\ loaded = NoLoad
    /\ environ = NoEnviron
    /\ pmap = NoMap
    /\ cli = NoCli

\* Daemon._startup
Startup ==
    /\ pc = "STARTING"
    /\ LET lt == get_latest(config, TimeOf(clock))
       IN /\ latest' = lt
          /\ IF lt.err = "NoLatestEntry"
             THEN \E writable \in BOOLEAN :
                      Apply(FallbackPercent, writable, "startup")
             ELSE IF lt.err # ""
             THEN /\ pc' = "CRASHED"
                  /\ UNCHANGED <<dev, lastApp, minuteApps>>
             ELSE \E writable \in BOOLEAN :
                      Apply(lt.brightness, writable, "startup")
    /\ started' = clock
    /\ UNCHANGED <<impl, config, clock, reset, initial, last, ticks, loopApps,
                   rejected, call>>
    /\ UNCHANGED hostVars
    /\ UNCHANGED toolVars

\* The body of one iteration of the loop of Daemon.spawn, up to sleep().
Tick ==
    /\ pc = "RUNNING"
    /\ LET now == clock
           e   == Lookup(config, TimeOf(now))
       IN IF Consult(last, now)
          THEN /\ IF e.err = ""
                  THEN /\ \E writable \in BOOLEAN :
                              Apply(e.brightness, writable, "loop")
                       /\ loopApps' = loopApps + 1
                       /\ rejected' = (rejected \/ lastApp'.err # "")
                  ELSE /\ pc' = "SLEEP"
                       /\ UNCHANGED <<dev, lastApp, minuteApps, loopApps,
                                      rejected>>
               /\ last' = now
          ELSE /\ pc' = "SLEEP"
               /\ UNCHANGED <<dev, lastApp, minuteApps, loopApps, rejected,
                              last>>
    /\ ticks' = ticks + 1
    /\ UNCHANGED <<impl, config, clock, latest, reset, initial, started, call>>
    /\ UNCHANGED hostVars
    /\ UNCHANGED toolVars

\* sleep(self.tick) returns: the tick is shorter than a minute, so the
\* stripped clock is the same minute or the next one.
SleepReturn ==
    /\ pc = "SLEEP"
    /\ \/ /\ ticks < MaxTicks
          /\ UNCHANGED <<clock, ticks, minuteApps, loopApps>>
       \/ /\ clock < MaxClock
          /\ clock' = clock + 1
          /\ ticks' = 0
          /\ minuteApps' = 0
          /\ loopApps' = 0
    /\ pc' = "RUNNING"
    /\ UNCHANGED <<impl, config, latest, dev, reset, initial, last, lastApp,
                   started, rejected, call>>
    /\ UNCHANGED hostVars
    /\ UNCHANGED toolVars

\* KeyboardInterrupt during sleep(): break
Interrupt ==
    /\ pc = "SLEEP"
    /\ pc' = "STOPPING"
    /\ UNCHANGED <<impl, config, clock, latest, dev, reset, initial, last,
                   ticks, lastApp, minuteApps, loopApps, started, rejected,
                   call>>
    /\ UNCHANGED hostVars
    /\ UNCHANGED toolVars

\* Daemon._shutdown
Shutdown ==
    /\ pc = "STOPPING"
    /\ IF reset
       THEN \E writable \in BOOLEAN :
                Apply(ResetValue(initial), writable, "shutdown")
       ELSE /\ pc' = "STOPPED"
            /\ UNCHANGED <<dev, lastApp, minuteApps>>
    /\ UNCHANGED <<impl, config, clock, latest, reset, initial, last, ticks,
                   loopApps, started, rejected, call>>
    /\ UNCHANGED hostVars
    /\ UNCHANGED toolVars

Next == Startup \/ Tick \/ SleepReturn \/ Interrupt \/ Shutdown

Spec == Init /\ [][Next]_vars

\* The lifecycle state of section 4.4 for a position of the program.
State == IF pc = "SLEEP" THEN "RUNNING" ELSE pc

\* ------------------------------------------------- get_latest on its own
\* get_latest called on a schedule with datetime.time keys, at any time.
InitLatest ==
    /\ impl = "monolith"
    /\ config \in ParsedConfigs("monolith")
    /\ clock \in 0 .. MaxClock
    /\ pc = "CALL"
    /\ latest = NoValue
    /\ dev = NoDevice
    /\ reset = FALSE
    /\ initial = None
    /\ last = None
    /\ ticks = 0
    /\ lastApp = NoApp
    /\ minuteApps = 0
    /\ loopApps = 0
    /\ started = None
    /\ rejected = FALSE
    /\ call = NoCall
    /\ json = << >>
    /\ parsed = << >>
    /\ sysfs = << >>
    /\ smbus = "KeyError"
    /\ loaded = NoLoad
    /\ environ = NoEnviron
    /\ pmap = NoMap
    /\ cli = NoCli

GetLatestCall ==
    /\ pc = "CALL"
    /\ latest' = get_latest(config, TimeOf(clock))
    /\ pc' = "RETURNED"
    /\ UNCHANGED <<impl, config, clock, dev, reset, initial, last, ticks,
                   lastApp, minuteApps, loopApps, started, rejected, call>>
    /\ UNCHANGED hostVars
    /\ UNCHANGED toolVars

NextLatest == GetLatestCall

SpecLatest == InitLatest /\ [][NextLatest]_vars

\* ------------------------------------------------ the device API on its own
\* The percentages handed to the percent setter.
Percents == (0 .. 100) \cup {-1, 101, 1000}

LinuxDevices ==
    {d \in [kind : {"linux"}, ver : {""}, max : 1 .. MaxRawMax,
             raw : 0 .. MaxRawMax] : d.raw <= d.max}

\* The values handed to the raw setter (hundredths for xrandr).
RawArgs == {-1, 0, 1, 3, MaxRawMax, MaxRawMax + 1, 17, 18}

LargeDevices ==
    {Device("linux", "", LargeRawMax, r) : r \in {0, LargeRawMax - 1, LargeRawMax}}

ApiDevices ==
    LinuxDevices \cup LargeDevices
        \cup {Device("i2c", v, 17, r) : v \in {"api", "old"}, r \in 1 .. 17}
        \cup {Device("xrandr", "", 0, r) : r \in {0, 50, 100}}

InitApi ==
    /\ dev \in ApiDevices
    /\ pc = "API"
    /\ call = NoCall
    /\ impl = "package"
    /\ config = [keys |-> "str", tab |-> EmptyTab]
    /\ clock = 0
    /\ latest = NoValue
    /\ reset = FALSE
    /\ initial = None
    /\ last = None
    /\ ticks = 0
    /\ lastApp = NoApp
    /\ minuteApps = 0
    /\ loopApps = 0
    /\ started = None
    /\ rejected = FALSE
    /\ json = << >>
    /\ parsed = << >>
    /\ sysfs = << >>
    /\ smbus = "KeyError"
    /\ loaded = NoLoad
    /\ environ = NoEnviron
    /\ pmap = NoMap
    /\ cli = NoCli

\* backlight.percent = percent
ApiSetPercent ==
    /\ pc = "API"
    /\ \E percent \in Percents, writable \in BOOLEAN :
          LET r == SetPercent(dev, percent, writable)
          IN /\ dev' = r.dev
             /\ call' = [op |-> "set_percent", arg |-> percent, err |-> r.err,
                         ret |-> None]
    /\ UNCHANGED <<impl, config, clock, latest, pc, reset, initial, last,
                   ticks, lastApp, minuteApps, loopApps, started, rejected>>
    /\ UNCHANGED hostVars
    /\ UNCHANGED toolVars

\* backlight.percent
ApiGetPercent ==
    /\ pc = "API"
    /\ dev.kind \in {"linux", "xrandr"}
    /\ call' = [op |-> "get_percent", arg |-> None, err |-> "",
                ret |-> Percent(dev)]
    /\ UNCHANGED <<impl, config, clock, latest, pc, dev, reset, initial, last,
                   ticks, lastApp, minuteApps, loopApps, started, rejected>>
    /\ UNCHANGED hostVars
    /\ UNCHANGED toolVars

\* backlight.raw = value
ApiSetRaw ==
    /\ pc = "API"
    /\ \E value \in RawArgs, writable \in BOOLEAN :
          LET r == SetRaw(dev, value, writable)
          IN /\ dev' = r.dev
             /\ call' = [op |-> "set_raw", arg |-> value, err |-> r.err,
                         ret |-> None]
    /\ UNCHANGED <<impl, config, clock, latest, pc, reset, initial, last,
                   ticks, lastApp, minuteApps, loopApps, started, rejected>>
    /\ UNCHANGED hostVars
    /\ UNCHANGED toolVars

\* backlight.percent = backlight.percent, on a device whose raw value is one
\* the device can hold
ApiReapplyPercent ==
    /\ pc = "API"
    /\ dev.kind = "linux" => (0 <= dev.raw /\ dev.raw <= dev.max)
    /\ \E writable \in BOOLEAN :
          LET r == Reapply(dev, writable)
          IN /\ dev' = r.dev
             /\ call' = [op |-> "reapply", arg |-> None, err |-> r.err,
                         ret |-> None]
    /\ UNCHANGED <<impl, config, clock, latest, pc, reset, initial, last,
                   ticks, lastApp, minuteApps, loopApps, started, rejected>>
    /\ UNCHANGED hostVars
    /\ UNCHANGED toolVars

\* VALUES.from_percent(backlight.percent) on the I2C device: arg is the raw
\* value whose reported percent is looked up, ret the raw value found.
ApiFromPercentOfMean ==
    /\ pc = "API"
    /\ dev.kind = "i2c"
    /\ LET r == from_percent_number(dev.ver, ChrontelValues(dev.ver),
                                    I2CPercent(dev))
       IN call' = [op |-> "from_percent", arg |-> dev.raw, err |-> r.err,
                   ret |-> r.raw]
    /\ UNCHANGED <<impl, config, clock, latest, pc, dev, reset, initial, last,
                   ticks, lastApp, minuteApps, loopApps, started, rejected>>
    /\ UNCHANGED hostVars
    /\ UNCHANGED toolVars

NextApi ==
    \/ ApiSetPercent
    \/ ApiGetPercent
    \/ ApiSetRaw
    \/ ApiReapplyPercent
    \/ ApiFromPercentOfMean

SpecApi == InitApi /\ [][NextApi]_vars

\* --------------------------------------------- brightness() on its own
\* brightness(percent) of the api package: the percent is set; on
\* ValueError the raw value min(backlight.values) is written instead, and
\* only the I2C device has the attribute values.
api_brightness(d, percent, writable) ==
    LET r == SetPercent(d, percent, writable)
        c == IF r.err # "ValueError" THEN r
             ELSE IF d.kind = "i2c"
             THEN LET values == DOMAIN ChrontelValues(d.ver)
                  IN SetRaw(d, CHOOSE v \in values : \A w \in values : v <= w,
                            writable)
             ELSE Result(d, "AttributeError")
        method == CASE d.kind = "linux" -> "Linux"
                    [] d.kind = "i2c"   -> "I2C / SMBus"
                    [] OTHER            -> "xrandr"
    IN [dev |-> c.dev,
        err |-> c.err,
        ret |-> IF c.err # "" THEN [percent |-> Number(0, 1), method |-> ""]
                ELSE [percent |-> GetPercent(c.dev), method |-> method]]

\* The devices autoload of the api package returns.
OrchDevices == {d \in ApiDevices : d.ver # "old"}

InitOrch ==
    /\ dev \in OrchDevices
    /\ pc = "ORCH"
    /\ call = NoCall
    /\ impl = "package"
    /\ config = [keys |-> "str", tab |-> EmptyTab]
    /\ clock = 0
    /\ latest = NoValue
    /\ reset = FALSE
    /\ initial = None
    /\ last = None
    /\ ticks = 0
    /\ lastApp = NoApp
    /\ minuteApps = 0
    /\ loopApps = 0
    /\ started = None
    /\ rejected = FALSE
    /\ json = << >>
    /\ parsed = << >>
    /\ sysfs = << >>
    /\ smbus = "KeyError"
    /\ loaded = NoLoad
    /\ environ = NoEnviron
    /\ pmap = NoMap
    /\ cli = NoCli

\* brightness(percent)
ApiBrightness ==
    /\ pc = "ORCH"
    /\ \E percent \in Percents, writable \in BOOLEAN :
          LET r == api_brightness(dev, percent, writable)
          IN /\ dev' = r.dev
             /\ call' = [op |-> "brightness", arg |-> percent, err |-> r.err,
                         ret |-> r.ret]
    /\ pc' = "RETURNED"
    /\ UNCHANGED <<impl, config, clock, latest, reset, initial, last, ticks,
                   lastApp, minuteApps, loopApps, started, rejected>>
    /\ UNCHANGED hostVars
    /\ UNCHANGED toolVars

NextOrch == ApiBrightness

SpecOrch == InitOrch /\ [][NextOrch]_vars

\* ------------------------------------------------ the locators on their own
InitLoad ==
    /\ sysfs \in Listings
    /\ smbus \in {"KeyError", "DoesNotExist", "ok"}
    /\ loaded = NoLoad
    /\ pc = "LOAD"
    /\ json = << >>
    /\ parsed = << >>
    /\ impl = "package"
    /\ config = [keys |-> "str", tab |-> EmptyTab]
    /\ clock = 0
    /\ latest = NoValue
    /\ dev = NoDevice
    /\ reset = FALSE
    /\ initial = None
    /\ last = None
    /\ ticks = 0
    /\ lastApp = NoApp
    /\ minuteApps = 0
    /\ loopApps = 0
    /\ started = None
    /\ rejected = FALSE
    /\ call = NoCall
    /\ environ = NoEnviron
    /\ pmap = NoMap
    /\ cli = NoCli

Returned(op, search, omit_actual, cards, result) ==
    /\ loaded' = [op |-> op, search |-> search, omit_actual |-> omit_actual,
                  cards |-> cards, result |-> result]
    /\ pc' = "LOADED"
    /\ UNCHANGED <<impl, config, clock, latest, dev, reset, initial, last,
                   ticks, lastApp, minuteApps, loopApps, started, rejected,
                   call, json, parsed, sysfs, smbus>>
    /\ UNCHANGED toolVars

\* autoload(search, omit_actual)
AutoloadCall ==
    /\ pc = "LOAD"
    /\ \E search \in BOOLEAN, omit_actual \in BOOLEAN :
          Returned("autoload", search, omit_actual, << >>,
                   autoload(sysfs, smbus, search, omit_actual))

\* Backlight.load(graphics_cards)
BacklightLoadCall ==
    /\ pc = "LOAD"
    /\ \E graphics_cards \in SeqsUpTo(Cards, MaxCards) :
          Returned("load", FALSE, FALSE, graphics_cards,
                   BacklightLoad(sysfs, graphics_cards))

\* LinuxBacklight.any()
LinuxAnyCall ==
    /\ pc = "LOAD"
    /\ Returned("any", FALSE, FALSE, << >>, LinuxAny(sysfs, FALSE, << >>))

NextLoad == AutoloadCall \/ BacklightLoadCall \/ LinuxAnyCall

SpecLoad == InitLoad /\ [][NextLoad]_vars

\* ------------------------------------------------ parse_config on its own
InitParse ==
    /\ impl \in {"monolith", "package"}
    /\ json \in JsonConfigs(MaxEntries)
    /\ parsed = << >>
    /\ config = [keys |-> "time", tab |-> EmptyTab]
    /\ pc = "PARSE"
    /\ sysfs = << >>
    /\ smbus = "KeyError"
    /\ loaded = NoLoad
    /\ clock = 0
    /\ latest = NoValue
    /\ dev = NoDevice
    /\ reset = FALSE
    /\ initial = None
    /\ last = None
    /\ ticks = 0
    /\ lastApp = NoApp
    /\ minuteApps = 0
    /\ loopApps = 0
    /\ started = None
    /\ rejected = FALSE
    /\ call = NoCall
    /\ environ = NoEnviron
    /\ pmap = NoMap
    /\ cli = NoCli

\* dict(parse_config(json))
ParseCall ==
    /\ pc = "PARSE"
    /\ parsed' = Yielded(json)
    /\ config' = parse_config(impl, json)
    /\ pc' = "PARSED"
    /\ UNCHANGED <<impl, clock, latest, dev, reset, initial, last, ticks,
                   lastApp, minuteApps, loopApps, started, rejected, call,
                   json, sysfs, smbus, loaded>>
    /\ UNCHANGED toolVars

NextParse == ParseCall

SpecParse == InitParse /\ [][NextParse]_vars

\* ---------------------------------------------------- the command line tool
\* The <value> argument as typed: an optional sign and digits, or text that
\* is no integer (mag = None).
CliMagnitudes == {0, 2, 5, MaxRawMax + 1, 60}

CliValues ==
    [sign : {"", "+", "-"}, mag : CliMagnitudes]
        \cup {[sign |-> "", mag |-> None]}

\* int(value): ValueError unless the text is an integer.
IntOf(value) ==
    IF value.mag = None THEN [err |-> "ValueError", int |-> 0]
    ELSE [err |-> "",
          int |-> IF value.sign = "-" THEN 0 - value.mag ELSE value.mag]

\* IntegerDifferential.__new__: the int of the text, sign included, with the
\* flags increase and decrease.
IntegerDifferential(value) ==
    [err      |-> IntOf(value).err,
     int      |-> IntOf(value).int,
     increase |-> value.sign = "+",
     decrease |-> value.sign = "-"]

Min(a, b) == IF a <= b THEN a ELSE b
Max(a, b) == IF a >= b THEN a ELSE b

\* The raw setter of the sysfs device when the write may also fail with an
\* OSError other than PermissionError: io is what open() and write() do.
WriteRaw(d, brightness, io) ==
    IF io = "ok" THEN LinuxSetRaw(d, brightness, TRUE) ELSE Result(d, io)

\* The percent setter of the sysfs device under the same failures.
WritePercent(d, percent, io) ==
    LET r == LinuxSetPercent(d, percent, io = "ok")
    IN IF r.err = "PermissionError" THEN Result(d, io) ELSE r

\* cli._set_value: the value handed to the property setter and what the
\* setter did.
SetValue(d, value, raw, io) ==
    LET current == IF raw THEN d.raw ELSE LinuxPercent(d)
        limit   == IF raw THEN d.max ELSE 100
        target  == IF value.increase THEN Min(limit, current + value.int)
                   ELSE IF value.decrease THEN Max(0, current - value.int)
                   ELSE value.int
        r       == IF raw THEN WriteRaw(d, target, io)
                   ELSE WritePercent(d, target, io)
    IN [dev |-> r.dev, err |-> r.err, set |-> target]

\* cli.set_value: the exit code for what _set_value raised.
set_value(err) ==
    CASE err = ""                -> 0
      [] err = "ValueError"      -> 1
      [] err = "PermissionError" -> 2
      [] OTHER                   -> 3

\* load(name, omit_actual=...) of the api package.
Load(fs, bus, name, omit_actual) ==
    IF name = ""
    THEN IF bus = "ok" THEN Found("i2c", "ChrontelCH7511B", <<"i2c">>)
         ELSE LinuxAny(fs, omit_actual, <<"i2c">>)
    ELSE LET e == LinuxBacklight(fs, name, omit_actual)
         IN IF e = "" THEN Found("linux", name, <<name>>)
            ELSE Failed(e, <<name>>)

\* What a run of the command line tool leaves behind.
CliEnd(d, set, err, exit, found) ==
    [dev |-> d, set |-> set, err |-> err, exit |-> exit, found |-> found]

\* cli.main with a value: argparse converts the value and exits with 2 when
\* the conversion raises; an exception main does not catch ends the
\* interpreter with 1.
main(fs, bus, card, value, raw, d, io) ==
    LET v     == IntegerDifferential(value)
        found == Load(fs, bus, card, FALSE)
        s     == SetValue(d, v, raw, io)
    IN IF v.err # "" THEN CliEnd(d, None, "NotInteger", 2, Failed("", << >>))
       ELSE IF found.err = "NoSupportedGraphicsCards"
       THEN CliEnd(d, None, found.err, 3, found)
       ELSE IF found.err # "" THEN CliEnd(d, None, found.err, 1, found)
       ELSE CliEnd(s.dev, s.set, s.err, set_value(s.err), found)

\* CLI.set_brightness of backlight.py: raw mode writes the text as it was
\* typed, and the brightness attribute refuses text that is no number;
\* percent mode does not catch OSError, which ends the interpreter with 1.
\* The method returns None, exit code 0, when nothing was raised.
set_brightness(d, value, raw, io) ==
    LET r == IF raw
             THEN WriteRaw(d, IntOf(value).int,
                           IF io = "ok" /\ IntOf(value).err # ""
                           THEN "OSError" ELSE io)
             ELSE WritePercent(d, IntOf(value).int, io)
    IN IF ~raw /\ IntOf(value).err # ""
       THEN [dev |-> d, set |-> None, err |-> "NotInteger", exit |-> 2]
       ELSE [dev  |-> r.dev,
             set  |-> IntOf(value).int,
             err  |-> r.err,
             exit |-> CASE r.err = ""                -> 0
                        [] r.err = "PermissionError" -> 4
                        [] OTHER                     -> 1]

\* CLI.run of backlight.py with a value: CLI([options['--graphics-card']])
\* hands the name, or None, to Backlight.load, which looks for str(name).
CliRun(fs, card, value, raw, d, io) ==
    LET found == BacklightLoad(fs, <<IF card = "" THEN "None" ELSE card>>)
        s     == set_brightness(d, value, raw, io)
    IN IF found.err # "" THEN CliEnd(d, None, found.err, 3, found)
       ELSE CliEnd(s.dev, s.set, s.err, s.exit, found)

\* The hosts the tool runs on: no device directory, or acpi_video0.
CliHosts == {<< >>, <<[name |-> "acpi_video0", files |-> Files]>>}

CliDevices == {Device("linux", "", MaxRawMax, r) : r \in 0 .. MaxRawMax}

InitCli ==
    /\ impl \in {"monolith", "package"}
    /\ sysfs \in CliHosts
    /\ smbus = "KeyError"
    /\ dev \in CliDevices
    /\ cli \in [card : {"", "acpi_video0"}, value : CliValues, raw : BOOLEAN,
                io : {""}, before : {NoDevice}, set : {None}, err : {""},
                exit : {None}]
    /\ pc = "CLI"
    /\ loaded = NoLoad
    /\ json = << >>
    /\ parsed = << >>
    /\ config = [keys |-> "str", tab |-> EmptyTab]
    /\ clock = 0
    /\ latest = NoValue
    /\ reset = FALSE
    /\ initial = None
    /\ last = None
    /\ ticks = 0
    /\ lastApp = NoApp
    /\ minuteApps = 0
    /\ loopApps = 0
    /\ started = None
    /\ rejected = FALSE
    /\ call = NoCall
    /\ environ = NoEnviron
    /\ pmap = NoMap

\* One run of the tool with a value on the command line.
CliSet ==
    /\ pc = "CLI"
    /\ \E io \in {"ok", "PermissionError", "OSError"} :
          LET r == IF impl = "package"
                   THEN main(sysfs, smbus, cli.card, cli.value, cli.raw, dev,
                             io)
                   ELSE CliRun(sysfs, cli.card, cli.value, cli.raw, dev, io)
          IN /\ dev' = r.dev
             /\ cli' = [cli EXCEPT !.io = io, !.before = dev, !.set = r.set,
                                   !.err = r.err, !.exit = r.exit]
             /\ loaded' = [NoLoad EXCEPT !.op = "cli", !.result = r.found]
    /\ pc' = "EXITED"
    /\ UNCHANGED <<impl, config, clock, latest, reset, initial, last, ticks,
                   lastApp, minuteApps, loopApps, started, rejected, call,
                   json, parsed, sysfs, smbus, environ, pmap>>

NextCli == CliSet

SpecCli == InitCli /\ [][NextCli]_vars

\* ------------------------------------------------- the display tool (xrandr)
\* Strings of the environment are sequences of tokens: << >> is the empty
\* string, <<":", n>> is ':' followed by the digits of n.

\* Display.__str__
DisplayStr(display) == <<":", display>>

\* environ['DISPLAY'] = value
Setenv(env, value) ==
    [n \in DOMAIN env \cup {"DISPLAY"} |->
        IF n = "DISPLAY" THEN value ELSE env[n]]

\* del environ['DISPLAY']
Delenv(env) == [n \in DOMAIN env \ {"DISPLAY"} |-> env[n]]

\* environ.get('DISPLAY'): << >> stands for None, <<value>> for a value.
Getenv(env) == IF "DISPLAY" \in DOMAIN env THEN <<env["DISPLAY"]>> ELSE << >>

\* Display.__enter__: the previous value is kept, DISPLAY is set.
DisplayEnter(env, display) ==
    [previous |-> Getenv(env), env |-> Setenv(env, DisplayStr(display))]

\* Display.__exit__: DISPLAY is deleted when there was no previous value,
\* set back to it otherwise.
DisplayExit_keep(env, previous) ==
    IF previous = << >> THEN env ELSE Setenv(env, previous[1])

DisplayExit(env, previous) ==
    IF previous = << >> THEN Delenv(env) ELSE Setenv(env, previous[1])

\* The environments the program may be started in: DISPLAY unset, empty,
\* or naming some display.
Environs ==
    LET base == [n \in {"PATH"} |-> <<"/usr/bin">>]
    IN {base} \cup {Setenv(base, v) :
                       v \in {<< >>, <<"remote:", 0>>}
                             \cup {DisplayStr(n) : n \in 0 .. 1}}

InitXrandr ==
    /\ \E e \in Environs :
          environ = [NoEnviron EXCEPT !.env = e, !.before = e]
    /\ pc = "XRANDR"
    /\ impl = "package"
    /\ config = [keys |-> "str", tab |-> EmptyTab]
    /\ clock = 0
    /\ latest = NoValue
    /\ dev = NoDevice
    /\ reset = FALSE
    /\ initial = None
    /\ last = None
    /\ ticks = 0
    /\ lastApp = NoApp
    /\ minuteApps = 0
    /\ loopApps = 0
    /\ started = None
    /\ rejected = FALSE
    /\ call = NoCall
    /\ json = << >>
    /\ parsed = << >>
    /\ sysfs = << >>
    /\ smbus = "KeyError"
    /\ loaded = NoLoad
    /\ pmap = NoMap
    /\ cli = NoCli

XrandrFrame ==
    UNCHANGED <<impl, config, clock, latest, dev, reset, initial, last, ticks,
                lastApp, minuteApps, loopApps, started, rejected, call, json,
                parsed, sysfs, smbus, loaded, pmap, cli>>

\* _xrandr(display, ...): with Display(display) is entered.
XrandrEnter ==
    /\ pc = "XRANDR"
    /\ environ.calls < MaxCalls
    /\ \E display \in 0 .. MaxDisplay :
          LET r == DisplayEnter(environ.env, display)
          IN environ' = [environ EXCEPT !.env = r.env,
                                        !.previous = r.previous,
                                        !.display = display,
                                        !.before = environ.env,
                                        !.failed = FALSE]
    /\ pc' = "TOOL"
    /\ XrandrFrame

\* check_output(command) returns the output of the tool.
XrandrToolReturns ==
    /\ pc = "TOOL"
    /\ pc' = "EXIT"
    /\ UNCHANGED environ
    /\ XrandrFrame

\* check_output(command) raises (the tool is missing or exits non-zero).
XrandrToolRaises ==
    /\ pc = "TOOL"
    /\ environ' = [environ EXCEPT !.failed = TRUE]
    /\ pc' = "EXIT"
    /\ XrandrFrame

\* The with statement is left, by return or by the exception.
XrandrExit ==
    /\ pc = "EXIT"
    /\ environ' = [environ EXCEPT
                      !.env = DisplayExit(environ.env, environ.previous),
                      !.calls = environ.calls + 1]
    /\ pc' = "XRANDR"
    /\ XrandrFrame

NextXrandr ==
    \/ XrandrEnter
    \/ XrandrToolReturns
    \/ XrandrToolRaises
    \/ XrandrExit

SpecXrandr == InitXrandr /\ [][NextXrandr]_vars

\* ------------------------------------------- the daemon under a clock that
\* ------------------------------------------- may be set back
\* sleep(self.tick) returns after the wall clock was set back (by hand, by
\* a time service, or at the end of daylight saving time: datetime.now() is
\* local time): the next stripped_datetime() is an earlier minute.
ClockSetBack ==
    /\ pc = "SLEEP"
    /\ \E earlier \in 0 .. (clock - 1) : clock' = earlier
    /\ ticks' = 0
    /\ minuteApps' = 0
    /\ loopApps' = 0
    /\ pc' = "RUNNING"
    /\ UNCHANGED <<impl, config, latest, dev, reset, initial, last, lastApp,
                   started, rejected, call>>
    /\ UNCHANGED hostVars
    /\ UNCHANGED toolVars

NextClock == Next \/ ClockSetBack

SpecClock == Init /\ [][NextClock]_vars

\* ------------------------------------------------ PercentageMap on its own
\* The arguments of PercentageMap(raw, percent): the raw values first..lastv
\* in ascending order and the percentages pmin..pmax, among them those of
\* ChrontelCH7511B.VALUES and the default range(0, 101).
MapArguments ==
    {a \in [ver : {"api", "old"}, first : 0 .. 1,
            lastv : 1 .. (MaxValues + 1), pmin : {0, 30},
            pmax : {40, 99, 100}] : a.lastv - a.first + 1 \in 2 .. MaxValues}
        \cup {[ver |-> "api", first |-> 1, lastv |-> 17, pmin |-> 30,
               pmax |-> 100],
              [ver |-> "old", first |-> 1, lastv |-> 17, pmin |-> 30,
               pmax |-> 99]}

InitMap ==
    /\ \E a \in MapArguments :
          pmap = [ver |-> a.ver, first |-> a.first, lastv |-> a.lastv,
                  pmin |-> a.pmin, pmax |-> a.pmax, values |-> << >>]
    /\ pc = "MAP"
    /\ impl = "package"
    /\ config = [keys |-> "str", tab |-> EmptyTab]
    /\ clock = 0
    /\ latest = NoValue
    /\ dev = NoDevice
    /\ reset = FALSE
    /\ initial = None
    /\ last = None
    /\ ticks = 0
    /\ lastApp = NoApp
    /\ minuteApps = 0
    /\ loopApps = 0
    /\ started = None
    /\ rejected = FALSE
    /\ call = NoCall
    /\ json = << >>
    /\ parsed = << >>
    /\ sysfs = << >>
    /\ smbus = "KeyError"
    /\ loaded = NoLoad
    /\ environ = NoEnviron
    /\ cli = NoCli

\* PercentageMap(raw, percent)
BuildMap ==
    /\ pc = "MAP"
    /\ pmap' = [pmap EXCEPT !.values =
                   IF pmap.ver = "api"
                   THEN PercentageMap(pmap.first, pmap.lastv, pmap.pmin,
                                      pmap.pmax)
                   ELSE PercentageMapOld(pmap.first, pmap.lastv, pmap.pmin,
                                         pmap.pmax)]
    /\ pc' = "BUILT"
    /\ UNCHANGED <<impl, config, clock, latest, dev, reset, initial, last,
                   ticks, lastApp, minuteApps, loopApps, started, rejected,
                   call, json, parsed, sysfs, smbus, loaded, environ, cli>>

NextMap == BuildMap

SpecMap == InitMap /\ [][NextMap]_vars

\* ------------------------------------------- the daemon on a device every
\* ------------------------------------------- write to which succeeds
\* No use of the setter is rejected: the brightness file is writable.
NextWritable == Next /\ lastApp'.err = ""

SpecWritable == Init /\ [][NextWritable]_vars

\* ================================================================ claims
Greatest(S) == CHOOSE x \in S : \A y \in S : y <= x

Past(now) == {t \in DOMAIN config.tab : t <= now}

\* floor(n / d) = q, for d > 0
IsFloor(q, n, d) == d * q <= n /\ n < d * (q + 1)

C3_EmptyRaises ==
    (pc = "RETURNED" /\ DOMAIN config.tab = {})
        => latest = Raise("NoLatestEntry")

\* C3 witness: the call on the empty schedule, at a time other than 00:00,
\* ended with NoLatestEntry.
C3_Witness ==
    /\ pc = "RETURNED"
    /\ DOMAIN config.tab = {}
    /\ TimeOf(clock) > 0
    /\ latest.err = "NoLatestEntry"

\* C4 (as stated): when the schedule has an entry at the current clock
\* minute and the loop has applied it, the device has taken exactly one
\* brightness change from the daemon in that minute, all the daemon's
\* applications counted.
C4_AppliedOnceCountingAll ==
    (pc = "SLEEP" /\ TimeOf(clock) \in DOMAIN config.tab /\ lastApp.err = "")
        => minuteApps = 1

\* C5: on the first tick of a clock minute in RUNNING, if the schedule holds
\* an entry for the minute the daemon hands its percent to the device (raw
\* becomes floor(max * percent / 100), or the device stays as it was when
\* the write is rejected); if it holds none, the device and the record of
\* applications stay as they were.
C5_FirstTickApplies ==
    [][(pc = "RUNNING" /\ ticks = 0)
        => IF TimeOf(clock) \in DOMAIN config.tab
           THEN /\ lastApp'.phase = "loop"
                /\ lastApp'.percent = config.tab[TimeOf(clock)]
                /\ loopApps' = loopApps + 1
                /\ IF lastApp'.err = ""
                   THEN IsFloor(dev'.raw, dev.max * lastApp'.percent, 100)
                   ELSE dev' = dev
           ELSE dev' = dev /\ lastApp' = lastApp /\ loopApps' = loopApps
      ]_vars

\* C5 witness: a minute after the one the daemon started in, with an entry,
\* whose first tick has set the device to the entry's percent.
C5_Witness ==
    /\ pc = "SLEEP"
    /\ ticks = 1
    /\ clock > started
    /\ TimeOf(clock) \in DOMAIN config.tab
    /\ lastApp = [phase |-> "loop", percent |-> config.tab[TimeOf(clock)],
                  err |-> ""]
    /\ dev.raw = (dev.max * config.tab[TimeOf(clock)]) \div 100

ExpectedLatest(tab, now) ==
    LET past == {t \in DOMAIN tab : t <= now}
    IN IF past # {} THEN tab[Greatest(past)] ELSE tab[Greatest(DOMAIN tab)]

\* C6 (as stated): startup applies the brightness of the latest entry of a
\* non-empty schedule, or 100% on an empty one, and in both cases the daemon
\* enters its running loop.
C6_StartupAppliesAndRuns ==
    [][pc = "STARTING"
        => /\ pc' = "RUNNING"
           /\ lastApp'.phase = "startup"
           /\ lastApp'.percent =
                 IF DOMAIN config.tab = {} THEN 100
                 ELSE ExpectedLatest(config.tab, TimeOf(clock))
      ]_vars

\* C7: the snapshot is the percent of the device as the constructor found
\* it and never changes; shutdown with the reset flag hands exactly the
\* snapshot to the setter as the last application of the run, and shutdown
\* without the flag leaves device and application record alone.
C7_ResetToSnapshot ==
    /\ [](pc = "STARTING" => IsFloor(initial, dev.raw * 100, dev.max))
    /\ [][initial' = initial]_vars
    /\ [][pc = "STOPPING"
            => /\ pc' = "STOPPED"
               /\ IF reset
                  THEN /\ lastApp'.phase = "shutdown"
                       /\ lastApp'.percent = initial
                       /\ lastApp'.err = "" =>
                              IsFloor(dev'.raw, dev.max * initial, 100)
                  ELSE dev' = dev /\ lastApp' = lastApp
         ]_vars
    /\ [][pc = "STOPPED" => UNCHANGED <<dev, lastApp>>]_vars

\* C7 witness: stopped with the reset flag after the loop had applied a
\* schedule entry other than the snapshot; the last application is the
\* snapshot.
C7_Witness ==
    /\ pc = "STOPPED"
    /\ reset
    /\ loopApps > 0
    /\ config.tab[TimeOf(clock)] # initial
    /\ lastApp = [phase |-> "shutdown", percent |-> initial, err |-> ""]

\* C8: a rejected use of the setter inside the loop leaves the device as it
\* was and the daemon in RUNNING, and after a rejection the first tick of a
\* minute with an entry still hands that entry to the device.
C8_RejectionNotFatal ==
    /\ [][(pc = "RUNNING" /\ loopApps' = loopApps + 1
            /\ lastApp'.err \in {"ValueError", "PermissionError"})
            => (dev' = dev /\ pc' = "SLEEP")]_vars
    /\ [][(pc = "RUNNING" /\ rejected /\ ticks = 0
            /\ TimeOf(clock) \in DOMAIN config.tab)
            => /\ pc' = "SLEEP"
               /\ lastApp'.phase = "loop"
               /\ lastApp'.percent = config.tab[TimeOf(clock)]
               /\ lastApp'.err = "" =>
                      IsFloor(dev'.raw, dev.max * lastApp'.percent, 100)
         ]_vars
    /\ [](rejected => pc # "CRASHED")

\* C8 witness: an application was rejected inside the loop, and in a later
\* minute the loop has set the device to that minute's entry.
C8_Witness ==
    /\ rejected
    /\ pc = "SLEEP"
    /\ ticks = 1
    /\ TimeOf(clock) \in DOMAIN config.tab
    /\ lastApp = [phase |-> "loop", percent |-> config.tab[TimeOf(clock)],
                  err |-> ""]
    /\ dev.raw = (dev.max * config.tab[TimeOf(clock)]) \div 100

\* C9 (as stated): on every device variant the percent setter, given a
\* percent outside [0, 100], fails with an invalid-argument error and leaves
\* the raw value as it was.
C9_OutOfRangeRejected ==
    [][(call'.op = "set_percent" /\ (call'.arg < 0 \/ call'.arg > 100))
        => (call'.err = "ValueError" /\ dev'.raw = dev.raw)]_vars

\* C10: on a sysfs device with maximum m, a successful percent setter with
\* 0 <= p <= 100 leaves raw = floor(m * p / 100), so 0 <= raw <= m, and the
\* percent getter returns floor(raw * 100 / m).
C10_LinearRounding ==
    /\ (call.op = "set_percent" /\ dev.kind = "linux" /\ call.err = ""
          /\ 0 <= call.arg /\ call.arg <= 100)
          => /\ IsFloor(dev.raw, dev.max * call.arg, 100)
             /\ 0 <= dev.raw /\ dev.raw <= dev.max
    /\ (call.op = "get_percent" /\ dev.kind = "linux")
          => IsFloor(call.ret, dev.raw * 100, dev.max)

\* C10 witness: set_percent(50) succeeded on a device with maximum 7 and
\* left raw = 3.
C10_Witness ==
    /\ call.op = "set_percent"
    /\ call.arg = 50
    /\ call.err = ""
    /\ dev.kind = "linux"
    /\ dev.max = 7
    /\ dev.raw = 3

\* C11 (as stated): after every successful raw or percent write the raw
\* value is within [0, max], and the raw setter, given a value below 0 or
\* above max, fails and leaves the device as it was.
C11_RawWithinRange ==
    /\ [][(call'.op = "set_raw" /\ dev.kind \in {"linux", "i2c"}
            /\ (call'.arg < 0 \/ call'.arg > dev.max))
            => (call'.err # "" /\ dev' = dev)]_vars
    /\ []((call.op \in {"set_raw", "set_percent", "reapply"}
            /\ call.err = "" /\ dev.kind \in {"linux", "i2c"})
            => (0 <= dev.raw /\ dev.raw <= dev.max))

\* C12 (as stated): on a device with maximum m >= 1 and raw value r in
\* [0, m], setting the percent to the percent just read moves the raw value
\* by at most one unit.
C12_ReapplyWithinOneUnit ==
    [][(call'.op = "reapply" /\ dev.max >= 1
        /\ 0 <= dev.raw /\ dev.raw <= dev.max)
        => (dev'.raw - dev.raw <= 1 /\ dev.raw - dev'.raw <= 1)]_vars

\* C13 (as stated): for every raw value v of the ChrontelCH7511B map,
\* from_percent of the mean of v's percentage range, the value the percent
\* getter reports, returns v.
C13_MeanRoundTrip ==
    call.op = "from_percent" => (call.err = "" /\ call.ret = call.arg)

\* C14 (as stated): on the ChrontelCH7511B device the percent setter
\* succeeds for every integer percent in [0, 100] and leaves a raw value of
\* the legal set.
C14_EveryPercentResolves ==
    (call.op = "set_percent" /\ dev.kind = "i2c"
        /\ 0 <= call.arg /\ call.arg <= 100)
        => (call.err = "" /\ dev.raw \in 1 .. 17)

\* C15: the raw setter of the I2C device, given a value outside the legal
\* set 1..17 of the chip, fails with ValueError and leaves the register as
\* it was; given a value of the set it succeeds and the register holds
\* exactly that value.
C15_I2CRawLegalSet ==
    [][(call'.op = "set_raw" /\ dev.kind = "i2c")
        => IF call'.arg \in 1 .. 17
           THEN call'.err = "" /\ dev'.raw = call'.arg
           ELSE call'.err = "ValueError" /\ dev' = dev]_vars

\* C15 witness: the raw setter of the I2C device was handed 0, which lies
\* within [0, max] but not in the legal set, and failed with ValueError.
C15_Witness ==
    /\ call = [op |-> "set_raw", arg |-> 0, err |-> "ValueError", ret |-> None]
    /\ dev.kind = "i2c"

\* The directory of the card is there and holds the files the constructor
\* asks for.
Usable(name, omit_actual) ==
    \E i \in 1 .. Len(sysfs) :
        /\ sysfs[i].name = name
        /\ {"max_brightness", "brightness"} \subseteq sysfs[i].files
        /\ omit_actual \/ "actual_brightness" \in sysfs[i].files

\* The candidates a locator call went through.
Candidates ==
    IF loaded.cards # << >> THEN loaded.cards
    ELSE [i \in 1 .. Len(sysfs) |-> sysfs[i].name]

\* C16: autoload without search returns the well-known device acpi_video0
\* whenever its directory exists and holds the required files, whether or
\* not the I2C chip would match, and then probes nothing else; the I2C
\* match is only ever tried right after acpi_video0 has failed.
C16_WellKnownPreferred ==
    (pc = "LOADED" /\ loaded.op = "autoload" /\ ~loaded.search)
        => /\ Usable("acpi_video0", loaded.omit_actual)
                => loaded.result = Found("linux", "acpi_video0",
                                         <<"acpi_video0">>)
           /\ (\E i \in 1 .. Len(loaded.result.probes) :
                    loaded.result.probes[i] = "i2c")
                => /\ ~Usable("acpi_video0", loaded.omit_actual)
                   /\ loaded.result.probes[1] = "acpi_video0"
                   /\ loaded.result.probes[2] = "i2c"

\* C16 witness: the I2C chip matches and its bus opens, acpi_video0 is
\* usable and listed after another usable device, and autoload without
\* search returned acpi_video0.
C16_Witness ==
    /\ pc = "LOADED"
    /\ loaded.op = "autoload"
    /\ ~loaded.search
    /\ smbus = "ok"
    /\ Len(sysfs) = 2
    /\ sysfs[2].name = "acpi_video0"
    /\ Usable(sysfs[1].name, FALSE)
    /\ loaded.result.kind = "linux"
    /\ loaded.result.name = "acpi_video0"

\* C17 (as stated): autoload with search, when neither acpi_video0 nor the
\* I2C chip is usable, tries every Linux backlight device and, if none is
\* usable, returns the display-output variant instead of failing.
C17_SearchFallsBackToDisplay ==
    (pc = "LOADED" /\ loaded.op = "autoload" /\ loaded.search
        /\ ~Usable("acpi_video0", loaded.omit_actual) /\ smbus # "ok")
        => IF \E i \in 1 .. Len(sysfs) :
                  Usable(sysfs[i].name, loaded.omit_actual)
           THEN loaded.result.kind = "linux"
           ELSE /\ loaded.result.err = ""
                /\ loaded.result.kind = "xrandr"
                /\ \A i \in 1 .. Len(sysfs) :
                       \E j \in 1 .. Len(loaded.result.probes) :
                           loaded.result.probes[j] = sysfs[i].name

ValidValued ==
    {i \in 1 .. Len(json) :
        /\ json[i][2].kind \in {"int", "str"}
        /\ 0 <= json[i][2].v /\ json[i][2].v <= 100}

\* Those of them whose key is a zero-padded HH:MM string.
ValidEntries ==
    {i \in ValidValued : json[i][1].kind = "hhmm" /\ json[i][1].padded}

\* C19 (as stated): every item parse_config yields has a time of day and an
\* integer percent within [0, 100]; an entry whose value is not an integer
\* or lies outside [0, 100] yields nothing, and every entry with a valid
\* key and a valid value yields an item.
C19_OnlyValidEntries ==
    pc = "PARSED"
        => /\ \A k \in 1 .. Len(parsed) :
                 parsed[k][1] \in TimesOfDay /\ parsed[k][2] \in 0 .. 100
           /\ Len(parsed) <= Cardinality(ValidValued)
           /\ Len(parsed) >= Cardinality(ValidEntries)
           /\ \A i \in ValidEntries :
                 \E k \in 1 .. Len(parsed) :
                     parsed[k] = <<json[i][1].min, json[i][2].v>>

\* C20 (as stated): a key that is not zero-padded contributes nothing: the
\* schedule has an entry at its time only if a zero-padded key names that
\* time, and the entry of a valid zero-padded key is the one the schedule
\* holds for its time.
C20_UnpaddedKeyDropped ==
    pc = "PARSED"
        => /\ \A t \in DOMAIN config.tab :
                 \E i \in 1 .. Len(json) :
                     /\ json[i][1].kind = "hhmm"
                     /\ json[i][1].padded
                     /\ json[i][1].min = t
           /\ \A i \in ValidEntries :
                 /\ json[i][1].min \in DOMAIN config.tab
                 /\ config.tab[json[i][1].min] = json[i][2].v

\* The exit code the documentation gives to an outcome of the set command.
DocumentedExit(err) ==
    CASE err = ""                -> 0
      [] err = "ValueError"      -> 1
      [] err = "OSError"         -> 1
      [] err = "NotInteger"      -> 2
      [] err = "PermissionError" -> 4
      [] OTHER                   -> 3

\* C21 (as stated): the set command ends with 0 when the value was set, 1
\* for an invalid percentage or brightness, 2 for input that is no integer,
\* 3 when no supported device was found and 4 when the write was denied for
\* lack of permission.
C21_ExitCodePerOutcome ==
    pc = "EXITED" => cli.exit = DocumentedExit(cli.err)

\* C27 (as stated): in cli._set_value a value with a leading '-' and
\* magnitude N hands max(0, current - N) to the setter and never leaves the
\* brightness higher than it was; a value with a leading '+' hands
\* min(limit, current + N) to it, limit being 100 in percent mode and the
\* device maximum in raw mode.
C27_RelativeValue ==
    (pc = "EXITED" /\ impl = "package" /\ cli.set # None)
        => LET current == IF cli.raw THEN cli.before.raw
                          ELSE LinuxPercent(cli.before)
               now     == IF cli.raw THEN dev.raw ELSE LinuxPercent(dev)
               limit   == IF cli.raw THEN cli.before.max ELSE 100
               N       == cli.value.mag
           IN /\ cli.value.sign = "-" =>
                    (cli.set = Max(0, current - N) /\ now <= current)
              /\ cli.value.sign = "+" => cli.set = Min(limit, current + N)

\* C22: every invocation of the display tool through _xrandr leaves the
\* environment, DISPLAY included, exactly as it was before the call (same
\* value, or unset if it was unset), whether the tool returned or raised;
\* while the tool runs DISPLAY is ':' followed by the device's display
\* number.
C22_DisplayRestored ==
    /\ pc \in {"TOOL", "EXIT"} =>
          /\ "DISPLAY" \in DOMAIN environ.env
          /\ environ.env["DISPLAY"] = DisplayStr(environ.display)
    /\ pc = "XRANDR" => environ.env = environ.before

\* C22 witness: a call in which the tool failed has ended; DISPLAY was
\* unset before the call, held the display while the tool ran, and
\* is unset again.
C22_Witness ==
    /\ pc = "XRANDR"
    /\ environ.calls > 0
    /\ environ.failed
    /\ "DISPLAY" \notin DOMAIN environ.env
    /\ environ.previous = << >>

\* C23 (as stated): whenever the device rejects set_percent(percent) as an
\* invalid argument, brightness(percent) writes the smallest raw value the
\* device can hold and returns the percent the device then reports and the
\* method, on the sysfs device, the I2C device and the xrandr device alike.
C23_BrightnessCompensates ==
    [][(call'.op = "brightness"
          /\ SetPercent(dev, call'.arg, TRUE).err = "ValueError")
        => /\ call'.err = ""
           /\ dev'.raw = (IF dev.kind = "i2c" THEN 1 ELSE 0)
           /\ call'.ret.percent = GetPercent(dev')
           /\ call'.ret.method # ""
      ]_vars

\* C24 (as stated): on every tick in RUNNING whose clock minute differs from
\* the minute the schedule was last consulted at, later or earlier, or when
\* it was not consulted yet, the schedule is consulted for that minute (an
\* entry the lookup finds is applied) and the minute is recorded as last
\* consulted; on a tick in the same minute the schedule is not consulted.
C24_ConsultOnNewMinute ==
    [][pc = "RUNNING"
        => IF last = None \/ clock # last
           THEN /\ last' = clock
                /\ Lookup(config, TimeOf(clock)).err = ""
                      => loopApps' = loopApps + 1
           ELSE /\ last' = last
                /\ loopApps' = loopApps
                /\ dev' = dev
      ]_vars

\* C25 (as stated): the daemon is always in one of STARTING, RUNNING,
\* STOPPING, STOPPED and only moves forward through them; RUNNING is left
\* only from the interval sleep, by the interrupt, and then for STOPPING;
\* from STOPPING the daemon goes to STOPPED; nothing else ends RUNNING.
C25_LifecycleForward ==
    /\ [](State \in {"STARTING", "RUNNING", "STOPPING", "STOPPED"})
    /\ [][\/ State' = State
          \/ <<State, State'>> \in {<<"STARTING", "RUNNING">>,
                                    <<"RUNNING", "STOPPING">>,
                                    <<"STOPPING", "STOPPED">>}
         ]_vars
    /\ [][(State = "RUNNING" /\ State' # "RUNNING")
            => (pc = "SLEEP" /\ pc' = "STOPPING")]_vars
    /\ [][pc = "STOPPING" => pc' = "STOPPED"]_vars

\* The sub-ranges of a built map follow one another in raw-value order:
\* none runs backwards and each starts where the one before ends.
Contiguous(m) ==
    /\ \A v \in DOMAIN m.values : m.values[v][1] <= m.values[v][2]
    /\ \A v \in DOMAIN m.values :
          v < m.lastv => m.values[v][2] = m.values[v + 1][1]

\* C26 (as stated): in every PercentageMap the sub-ranges are pairwise
\* disjoint, ascending in raw-value order, each starting where the previous
\* one ends, and together they are exactly [min_percent, max_percent).
C26_RangesPartitionSpan ==
    pc = "BUILT"
        => /\ Contiguous(pmap)
           /\ pmap.values[pmap.first][1] = pmap.pmin
           /\ pmap.values[pmap.lastv][2] = pmap.pmax

\* C28 (as stated): on the sysfs device, when every write succeeds, a
\* daemon stopped with the reset flag leaves the device reporting the
\* percent of the snapshot taken at construction, whatever the device
\* maximum and whatever was applied in between.
C28_ResetRestoresReported ==
    (pc = "STOPPED" /\ reset /\ lastApp.phase = "shutdown")
        => Percent(dev) = initial

\* C29 (as stated): with a tick shorter than a minute and a clock that only
\* moves forward, a daemon that is not interrupted applies every schedule
\* entry during the entry's own clock minute, on every day: whenever the
\* clock leaves a minute the schedule has an entry for, the loop has applied
\* the entry in that minute, and a daemon with entries to apply is not ended
\* by an exception.
C29_EveryEntryInItsMinute ==
    /\ [][(clock' # clock /\ TimeOf(clock) \in DOMAIN config.tab)
            => (loopApps >= 1 /\ lastApp.phase = "loop"
                  /\ lastApp.percent = config.tab[TimeOf(clock)])]_vars
    /\ [](DOMAIN config.tab # {} => pc # "CRASHED")

====
